---- MODULE Spec2Model ----
(***************************************************************************)
(* Model of the Unusual Whales MCP server (src/src/server.py and           *)
(* src/src/mcp_server_unusualwhales/server.py).  Every tool builds a query *)
(* mapping from its arguments, issues one GET, and either normalises the   *)
(* JSON body into a data frame or maps the failure to a raised exception.  *)
(***************************************************************************)
EXTENDS Integers, Sequences, FiniteSets, TLC

VARIABLES pc, tool, args, url, params, requests, rsp, outcome, log,
          headers, calls, frames

\* the state of one call followed from its start to its end
single == <<pc, tool, args, url, params, requests, rsp, outcome, log>>

\* The calls that run concurrently: calls is what each invocation was given,
\* sent, was answered and gave back; frames holds the local variables of the
\* running functions; headers is the module-level mapping they all read.

vars == <<pc, tool, args, url, params, requests, rsp, outcome, log,
          headers, calls, frames>>

(***************************************************************************)
(* Bounds of the model.                                                    *)
(***************************************************************************)
\* at most this many arguments of one call are passed explicitly
MaxChanged == 1
\* at most this many records in the `data` sequence of a response
MaxRows == 2
\* this many invocations can be in progress at the same time
MaxCalls == 2

(***************************************************************************)
(* Python values.  t is the Python type, n the numeric value of a bool,    *)
(* int or float, s the text of a str or the items of a list; e is the      *)
(* scale of a decimal cell of a data frame and 0 for every other value.    *)
(***************************************************************************)
PyNone == [t |-> "none", n |-> 0, s |-> <<>>, e |-> 0]
PyBool(b) == [t |-> "bool", n |-> IF b THEN 1 ELSE 0, s |-> <<>>, e |-> 0]
PyInt(i) == [t |-> "int", n |-> i, s |-> <<>>, e |-> 0]
PyFloat(i) == [t |-> "float", n |-> i, s |-> <<>>, e |-> 0]
PyStr(x) == [t |-> "str", n |-> 0, s |-> <<x>>, e |-> 0]
PyList(items) == [t |-> "list", n |-> 0, s |-> items, e |-> 0]

IsNumber(v) == v.t \in {"bool", "int", "float"}

\* Python's == : numbers compare by value across bool, int and float
PyEq(a, b) ==
    IF IsNumber(a) /\ IsNumber(b) THEN a.n = b.n
    ELSE a.t = b.t /\ a.s = b.s

\* Python's truth value of an object
PyTruthy(v) ==
    CASE v.t = "none" -> FALSE
      [] IsNumber(v) -> v.n # 0
      [] v.t = "str" -> v.s # <<"">>
      [] OTHER -> v.s # <<>>

(***************************************************************************)
(* The tools and their signatures.                                         *)
(***************************************************************************)
Tools ==
    {"get_flow_alerts", "get_ticker_info", "get_stock_state",
     "get_institution_holdings", "get_insider_transactions",
     "get_congress_trades", "get_news_headlines"}

\* a parameter with a default, and a parameter without one
Opt(name, type, d) == [name |-> name, type |-> type, dflt |-> <<d>>]
Req(name, type) == [name |-> name, type |-> type, dflt |-> <<>>]

get_flow_alerts_signature ==
    << Opt("all_opening", "bool", PyBool(FALSE)),
       Opt("is_ask_side", "bool", PyBool(FALSE)),
       Opt("is_bid_side", "bool", PyBool(FALSE)),
       Opt("is_call", "bool", PyBool(FALSE)),
       Opt("is_floor", "bool", PyBool(FALSE)),
       Opt("is_otm", "bool", PyBool(FALSE)),
       Opt("is_put", "bool", PyBool(FALSE)),
       Opt("is_sweep", "bool", PyBool(FALSE)),
       Opt("issue_types", "list", PyNone),
       Opt("limit", "int", PyInt(200)),
       Opt("max_diff", "float", PyFloat(0)),
       Opt("max_dte", "int", PyInt(0)),
       Opt("max_open_interest", "int", PyInt(0)),
       Opt("max_premium", "int", PyInt(0)),
       Opt("max_size", "int", PyInt(0)),
       Opt("max_volume", "int", PyInt(0)),
       Opt("max_volume_oi_ratio", "float", PyFloat(0)),
       Opt("min_diff", "float", PyFloat(0)),
       Opt("min_dte", "int", PyInt(0)),
       Opt("min_open_interest", "int", PyInt(0)),
       Opt("min_premium", "int", PyInt(0)),
       Opt("min_size", "int", PyInt(0)),
       Opt("min_volume", "int", PyInt(0)),
       Opt("min_volume_oi_ratio", "float", PyFloat(0)),
       Opt("newer_than", "str", PyNone),
       Opt("older_than", "str", PyNone),
       Opt("rule_name", "list", PyNone),
       Opt("ticker_symbol", "str", PyNone) >>

get_ticker_info_signature == << Req("ticker", "str") >>

get_stock_state_signature == << Req("ticker", "str") >>

get_institution_holdings_signature ==
    << Req("name", "str"),
       Opt("date", "str", PyNone),
       Opt("start_date", "str", PyNone),
       Opt("end_date", "str", PyNone),
       Opt("security_types", "list", PyNone),
       Opt("limit", "int", PyInt(500)),
       Opt("page", "int", PyInt(0)),
       Opt("order", "str", PyNone),
       Opt("order_direction", "str", PyStr("desc")) >>

get_insider_transactions_signature ==
    << Opt("ticker_symbol", "str", PyNone),
       Opt("min_value", "str", PyNone),
       Opt("max_value", "str", PyNone),
       Opt("min_price", "str", PyNone),
       Opt("max_price", "str", PyNone),
       Opt("owner_name", "str", PyNone),
       Opt("sectors", "str", PyNone),
       Opt("industries", "str", PyNone),
       Opt("min_marketcap", "str", PyNone),
       Opt("max_marketcap", "str", PyNone),
       Opt("market_cap_size", "str", PyNone),
       Opt("min_earnings_dte", "str", PyNone),
       Opt("max_earnings_dte", "str", PyNone),
       Opt("min_amount", "str", PyNone),
       Opt("max_amount", "str", PyNone),
       Opt("is_director", "bool", PyNone),
       Opt("is_officer", "bool", PyNone),
       Opt("is_s_p_500", "bool", PyNone),
       Opt("is_ten_percent_owner", "bool", PyNone),
       Opt("common_stock_only", "bool", PyNone),
       Opt("transaction_codes", "list", PyNone),
       Opt("security_ad_codes", "str", PyNone),
       Opt("limit", "int", PyInt(500)),
       Opt("page", "int", PyInt(0)) >>

get_congress_trades_signature ==
    << Opt("limit", "int", PyInt(100)),
       Opt("date", "str", PyNone),
       Opt("ticker", "str", PyNone) >>

get_news_headlines_signature ==
    << Opt("sources", "str", PyNone),
       Opt("search_term", "str", PyNone),
       Opt("major_only", "bool", PyBool(FALSE)),
       Opt("limit", "int", PyInt(50)),
       Opt("page", "int", PyInt(0)) >>

Signature(f) ==
    CASE f = "get_flow_alerts" -> get_flow_alerts_signature
      [] f = "get_ticker_info" -> get_ticker_info_signature
      [] f = "get_stock_state" -> get_stock_state_signature
      [] f = "get_institution_holdings" -> get_institution_holdings_signature
      [] f = "get_insider_transactions" -> get_insider_transactions_signature
      [] f = "get_congress_trades" -> get_congress_trades_signature
      [] f = "get_news_headlines" -> get_news_headlines_signature

\* f.__code__.co_varnames[:f.__code__.co_argcount]
param_names(f) == [i \in 1..Len(Signature(f)) |-> Signature(f)[i].name]

ParamSet(f) == {param_names(f)[i] : i \in 1..Len(Signature(f))}

ParamOf(f, name) ==
    Signature(f)[CHOOSE i \in 1..Len(Signature(f)) : Signature(f)[i].name = name]

\* f.__defaults__ : the defaults of the parameters that declare one, in order
default_values(f) ==
    LET withDefault == SelectSeq(Signature(f), LAMBDA p : p.dflt # <<>>)
    IN  [i \in 1..Len(withDefault) |-> withDefault[i].dflt[1]]

Min(a, b) == IF a <= b THEN a ELSE b

\* dict(zip(param_names, default_values)) : pairs by position from the front,
\* as long as the shorter of the two
defaults(f) ==
    LET n == Min(Len(param_names(f)), Len(default_values(f)))
    IN  [k \in {param_names(f)[i] : i \in 1..n} |->
            default_values(f)[CHOOSE i \in 1..n : param_names(f)[i] = k]]

\* the names the comprehension's last condition leaves out
excluded_names_locals_only(f) == {"url", "frame"}

excluded_names(f) ==
    IF f = "get_institution_holdings" THEN {"url", "frame", "name"}
    ELSE {"url", "frame"}

\* the tools that pass params= to client.get
SendsParams(f) == f \notin {"get_ticker_info", "get_stock_state"}

\* the comprehension without its `is not None` condition
filter_params_keeps_none(f, a) ==
    LET keep == {name \in ParamSet(f) :
                    /\ name \in DOMAIN a
                    /\ (name \notin DOMAIN defaults(f)
                          \/ ~PyEq(a[name], defaults(f)[name]))
                    /\ name \notin excluded_names(f)}
    IN  [name \in keep |-> a[name]]

\* the dict comprehension that builds params
filter_params(f, a) ==
    LET keep == {name \in ParamSet(f) :
                    /\ name \in DOMAIN a
                    /\ ~PyEq(a[name], PyNone)
                    /\ (name \notin DOMAIN defaults(f)
                          \/ ~PyEq(a[name], defaults(f)[name]))
                    /\ name \notin excluded_names(f)}
    IN  [name \in keep |-> a[name]]

\* params['transaction_codes[]'] = params.pop('transaction_codes')
rekey_list_params(f, p) ==
    IF /\ f = "get_insider_transactions"
       /\ "transaction_codes" \in DOMAIN p
       /\ p["transaction_codes"].t = "list"
    THEN [k \in (DOMAIN p \ {"transaction_codes"}) \cup {"transaction_codes[]"} |->
             IF k = "transaction_codes[]" THEN p["transaction_codes"] ELSE p[k]]
    ELSE p

\* the query mapping handed to client.get
build_params(f, a) ==
    IF SendsParams(f) THEN rekey_list_params(f, filter_params(f, a))
    ELSE [k \in {} |-> PyNone]

\* the query mapping of get_flow_alerts in the package copy of the module
\* (mcp_server_unusualwhales/server.py), whose signature and comprehension
\* are the same as those of src/server.py
package_get_flow_alerts_params(a) == filter_params("get_flow_alerts", a)

\* the f-string (or literal) assigned to url, as its path segments
build_url(f, a) ==
    CASE f = "get_flow_alerts" -> <<"api", "option-trades", "flow-alerts">>
      [] f = "get_ticker_info" -> <<"api", "stock", a["ticker"].s[1], "info">>
      [] f = "get_stock_state" -> <<"api", "stock", a["ticker"].s[1], "stock-state">>
      [] f = "get_institution_holdings" ->
            <<"api", "institution", a["name"].s[1], "holdings">>
      [] f = "get_insider_transactions" -> <<"api", "insider", "transactions">>
      [] f = "get_congress_trades" -> <<"api", "congress", "recent-trades">>
      [] f = "get_news_headlines" -> <<"api", "news", "headlines">>

(***************************************************************************)
(* The arguments a caller can pass.                                        *)
(***************************************************************************)
\* the default the signature declares for a parameter
DeclaredDefault(f, name) == ParamOf(f, name).dflt[1]

HasDefault(f, name) == ParamOf(f, name).dflt # <<>>

ValuesOfType(type) ==
    CASE type = "bool" -> {PyBool(TRUE), PyBool(FALSE), PyNone}
      [] type = "int" -> {PyInt(0), PyInt(500), PyNone}
      [] type = "float" -> {PyFloat(0), PyFloat(2), PyInt(0), PyNone}
      [] type = "str" -> {PyStr("desc"), PyStr("AAPL"), PyNone}
      [] type = "list" -> {PyList(<<"P", "S">>), PyList(<<>>), PyNone}

RequiredValues == {PyStr("AAPL"), PyStr("VANGUARD GROUP INC")}

OptionalParams(f) == {name \in ParamSet(f) : HasDefault(f, name)}

\* the ways of passing at most k of the optional arguments explicitly
RECURSIVE Passed(_, _)
Passed(f, k) ==
    IF k = 0 THEN {[x \in {} |-> PyNone]}
    ELSE LET prev == Passed(f, k - 1)
         IN  prev \cup
             UNION {UNION {{[x \in DOMAIN g \cup {name} |->
                                 IF x = name THEN v ELSE g[x]] :
                               v \in ValuesOfType(ParamOf(f, name).type)} :
                           name \in OptionalParams(f) \ DOMAIN g} : g \in prev}

\* the bound arguments of a call that passes at most k optional arguments:
\* every parameter has a value, the declared default where none was passed
CallArgs(f, k) ==
    {[name \in ParamSet(f) |->
        IF name \in DOMAIN req THEN req[name]
        ELSE IF name \in DOMAIN given THEN given[name]
        ELSE DeclaredDefault(f, name)] :
      req \in [ParamSet(f) \ OptionalParams(f) -> RequiredValues],
      given \in Passed(f, k)}

(***************************************************************************)
(* Exceptions.  Base gives the direct base class of each exception class   *)
(* the tools can meet: those of httpx, of polars, and the built-in ones.   *)
(***************************************************************************)
Base(c) ==
    CASE c = "ReadTimeout" -> "TimeoutException"
      [] c = "TimeoutException" -> "TransportError"
      [] c = "ConnectError" -> "NetworkError"
      [] c = "NetworkError" -> "TransportError"
      [] c = "TransportError" -> "RequestError"
      [] c = "RequestError" -> "HTTPError"
      [] c = "HTTPStatusError" -> "HTTPError"
      [] c = "HTTPError" -> "Exception"
      [] c = "JSONDecodeError" -> "ValueError"
      [] c = "KeyError" -> "LookupError"
      [] c = "ColumnNotFoundError" -> "PolarsError"
      [] c = "InvalidOperationError" -> "PolarsError"
      [] c = "ShapeError" -> "PolarsError"
      [] c = "Exception" -> "BaseException"
      [] OTHER -> "Exception"

RECURSIVE IsSubclass(_, _)
IsSubclass(c, d) ==
    IF c = d THEN TRUE
    ELSE IF c = "BaseException" THEN FALSE
    ELSE IsSubclass(Base(c), d)

\* the except clauses of a tool's try statement, in source order
except_clauses(f) ==
    IF f = "get_flow_alerts"
    THEN <<"HTTPStatusError", "RequestError", "TimeoutException">>
    ELSE <<"HTTPStatusError", "RequestError", "TimeoutException", "Exception">>

\* the clause that handles an exception of class c: the first one that
\* names c or a base class of c; "" when none does
matching_clause(f, c) ==
    LET cl == except_clauses(f)
        hits == {i \in 1..Len(cl) : IsSubclass(c, cl[i])}
    IN  IF hits = {} THEN ""
        ELSE cl[CHOOSE i \in hits : \A j \in hits : i <= j]

(***************************************************************************)
(* Results of a call.                                                      *)
(***************************************************************************)
EmptyDF == [columns |-> {}, rows |-> <<>>]

NoOutcome ==
    [kind |-> "none", exc |-> "", msg |-> "", code |-> 0, text |-> "", df |-> EmptyDF]

\* return df
Return(df) ==
    [kind |-> "return", exc |-> "", msg |-> "", code |-> 0, text |-> "", df |-> df]

\* raise exc(msg), the message carrying a status code and a text
Raise(exc, msg, code, text) ==
    [kind |-> "raise", exc |-> exc, msg |-> msg, code |-> code, text |-> text,
     df |-> EmptyDF]

(***************************************************************************)
(* Response bodies.  text is the raw body; k says what rsp.json() gives:   *)
(* "invalid" (not JSON), "null", "str", "list" or "map"; truthy is the     *)
(* truth value of the decoded object; message holds the value of the       *)
(* 'message' key and data the value of the 'data' key of a mapping.        *)
(***************************************************************************)
NoData == [k |-> "missing", rows |-> <<>>]
NullData == [k |-> "null", rows |-> <<>>]
ListData(rows) == [k |-> "list", rows |-> rows]
MapData(rec) == [k |-> "map", rows |-> <<rec>>]

Body(text, k, truthy, message, data) ==
    [text |-> text, k |-> k, truthy |-> truthy, message |-> message, data |-> data]

EmptyRecord == [x \in {} |-> PyNone]

\* the truth value of the `data` object
DataTruthy(d) ==
    CASE d.k \in {"missing", "null"} -> FALSE
      [] d.k = "list" -> d.rows # <<>>
      [] d.k = "map" -> DOMAIN d.rows[1] # {}

(***************************************************************************)
(* Field coercion.                                                         *)
(***************************************************************************)
Col(field, dtype) == [field |-> field, dtype |-> dtype]

\* the casts of the tool's first with_columns, in source order
coercion_table(f) ==
    CASE f = "get_flow_alerts" ->
            << Col("created_at", "Datetime"), Col("expiry", "Date"),
               Col("next_earnings_date", "Date"),
               Col("total_ask_side_prem", "Int64"),
               Col("total_bid_side_prem", "Int64"),
               Col("total_premium", "Int64"),
               Col("ask", "Decimal"), Col("bid", "Decimal"),
               Col("iv_end", "Decimal"), Col("iv_start", "Decimal"),
               Col("marketcap", "Decimal"), Col("price", "Decimal"),
               Col("strike", "Decimal"), Col("underlying_price", "Decimal"),
               Col("volume_oi_ratio", "Decimal") >>
      [] f = "get_ticker_info" ->
            << Col("next_earnings_date", "Date"), Col("avg30_volume", "Int64"),
               Col("marketcap", "Decimal") >>
      [] f = "get_stock_state" ->
            << Col("close", "Decimal"), Col("high", "Decimal"),
               Col("low", "Decimal"), Col("open", "Decimal"),
               Col("tape_time", "Datetime"), Col("total_volume", "Int64"),
               Col("volume", "Int64") >>
      [] f = "get_institution_holdings" ->
            << Col("avg_price", "Decimal"), Col("close", "Decimal"),
               Col("date", "Date"), Col("first_buy", "Date"),
               Col("price_first_buy", "Decimal"),
               Col("shares_outstanding", "Decimal"), Col("units", "Int64"),
               Col("units_change", "Int64"), Col("value", "Int64") >>
      [] f = "get_insider_transactions" ->
            << Col("amount", "Int64"), Col("date_excercisable", "Date"),
               Col("expiration_date", "Date"), Col("filing_date", "Date"),
               Col("marketcap", "Decimal"), Col("next_earnings_date", "Date"),
               Col("price", "Decimal"), Col("price_excercisable", "Decimal"),
               Col("shares_owned_after", "Int64"),
               Col("shares_owned_before", "Int64"),
               Col("stock_price", "Decimal"), Col("transaction_date", "Date"),
               Col("transactions", "Int64") >>
      [] f = "get_congress_trades" ->
            << Col("filed_at_date", "Date"), Col("transaction_date", "Date") >>
      [] f = "get_news_headlines" -> << Col("created_at", "Datetime") >>

TableFields(f) == {coercion_table(f)[i].field : i \in 1..Len(coercion_table(f))}

DtypeOf(f, field) ==
    coercion_table(f)[CHOOSE i \in 1..Len(coercion_table(f)) :
                          coercion_table(f)[i].field = field].dtype

\* the casts of get_flow_alerts are strict, all the others pass strict=False
strict_cast(f) == f = "get_flow_alerts"

\* each cast of get_ticker_info is guarded by `if <field> in df.columns`
guarded_cast(f) == f = "get_ticker_info"

\* the column the second with_columns converts to America/New_York
tz_column(f) ==
    CASE f = "get_flow_alerts" -> <<"created_at">>
      [] f = "get_stock_state" -> <<"tape_time">>
      [] f = "get_news_headlines" -> <<"created_at">>
      [] OTHER -> <<>>

\* whether data that is not a list is wrapped: `data = [data]`
wraps_single_record(f) == f \in {"get_ticker_info", "get_stock_state"}

\* rsp.json()['data'] in get_flow_alerts, rsp.json().get('data') elsewhere
subscripts_data(f) == f = "get_flow_alerts"

(***************************************************************************)
(* The text of the cells the modelled responses carry, and what each       *)
(* parses as.                                                              *)
(***************************************************************************)
DecimalText == "123.45"
ShortDecimalText == "1.5"
IntegerText == "100"
DateText == "2024-01-15"
DatetimeText == "2024-01-15T20:30:00Z"
SummerDatetimeText == "2024-07-04T02:15:00Z"
MalformedText == "n/a"

WellFormedText(dtype) ==
    CASE dtype = "Decimal" -> DecimalText
      [] dtype = "Int64" -> IntegerText
      [] dtype = "Date" -> DateText
      [] dtype = "Datetime" -> DatetimeText

\* a second well-formed text of the types whose value has a scale or a zone
OtherTexts(dtype) ==
    CASE dtype = "Decimal" -> {ShortDecimalText}
      [] dtype = "Datetime" -> {SummerDatetimeText}
      [] OTHER -> {}

(***************************************************************************)
(* Reading and printing text.  A text is a string; Char(s, i) is its i-th  *)
(* character.                                                              *)
(***************************************************************************)
Char(s, i) == SubSeq(s, i, i)

DigitChars == <<"0", "1", "2", "3", "4", "5", "6", "7", "8", "9">>

DigitSet == {DigitChars[d] : d \in 1..10}

IsDigit(ch) == ch \in DigitSet

DigitValue(ch) == (CHOOSE d \in 1..10 : DigitChars[d] = ch) - 1

IsDigits(s) == Len(s) > 0 /\ \A i \in 1..Len(s) : IsDigit(Char(s, i))

RECURSIVE ParseNat(_)
ParseNat(s) ==
    IF Len(s) = 0 THEN 0
    ELSE 10 * ParseNat(SubSeq(s, 1, Len(s) - 1)) + DigitValue(Char(s, Len(s)))

RECURSIVE Pow10(_)
Pow10(k) == IF k = 0 THEN 1 ELSE 10 * Pow10(k - 1)

RECURSIVE ZeroPad(_, _)
ZeroPad(s, width) == IF Len(s) >= width THEN s ELSE ZeroPad("0" \o s, width)

\* the result of reading a text: ok says whether it could be read, n is the
\* value read
Read(n) == [ok |-> TRUE, n |-> n]
Unreadable == [ok |-> FALSE, n |-> 0]

(***************************************************************************)
(* Decimals.  cast(pl.Decimal) names no scale, so the scale of the column  *)
(* is inferred from its leading values and every value is then read at     *)
(* that scale; a decimal is the integer n with e digits after the point.   *)
(***************************************************************************)
DotAt(text) == {i \in 1..Len(text) : Char(text, i) = "."}

FirstDot(text) == CHOOSE i \in DotAt(text) : \A j \in DotAt(text) : i <= j

\* the digits a text has after its decimal point
infer_scale(text) == IF DotAt(text) = {} THEN 0 ELSE Len(text) - FirstDot(text)

\* a text read as a decimal of the given scale; a text whose fraction is
\* longer than the scale is not a decimal of that scale
deserialize_decimal(text, scale) ==
    LET dot == IF DotAt(text) = {} THEN 0 ELSE FirstDot(text)
        whole == IF dot = 0 THEN text ELSE SubSeq(text, 1, dot - 1)
        frac == IF dot = 0 THEN "" ELSE SubSeq(text, dot + 1, Len(text))
    IN  IF ~IsDigits(whole) \/ ~(frac = "" \/ IsDigits(frac)) THEN Unreadable
        ELSE IF Len(frac) > scale THEN Unreadable
        ELSE Read(ParseNat(whole) * Pow10(scale)
                    + ParseNat(frac) * Pow10(scale - Len(frac)))

\* str() of a decimal cell
decimal_text(cell) ==
    IF cell.e = 0 THEN ToString(cell.n)
    ELSE ToString(cell.n \div Pow10(cell.e)) \o "."
            \o ZeroPad(ToString(cell.n % Pow10(cell.e)), cell.e)

(***************************************************************************)
(* Integers, dates and date-times.  A date is a number of days and a       *)
(* date-time a number of seconds since 1970-01-01T00:00:00.                *)
(***************************************************************************)
parse_integer(text) == IF IsDigits(text) THEN Read(ParseNat(text)) ELSE Unreadable

IsLeap(y) == (y % 4 = 0 /\ y % 100 # 0) \/ y % 400 = 0

DaysInMonth(y, m) ==
    IF m = 2 THEN (IF IsLeap(y) THEN 29 ELSE 28)
    ELSE IF m \in {4, 6, 9, 11} THEN 30 ELSE 31

\* the day number of a civil date (proleptic Gregorian calendar)
days_from_civil(y, m, d) ==
    LET yy == IF m <= 2 THEN y - 1 ELSE y
        era == yy \div 400
        yoe == yy - era * 400
        mp == IF m > 2 THEN m - 3 ELSE m + 9
        doy == (153 * mp + 2) \div 5 + d - 1
        doe == yoe * 365 + yoe \div 4 - yoe \div 100 + doy
    IN  era * 146097 + doe - 719468

\* the civil date of a day number
civil_from_days(z) ==
    LET zz == z + 719468
        era == zz \div 146097
        doe == zz - era * 146097
        yoe == (doe - doe \div 1460 + doe \div 36524 - doe \div 146096) \div 365
        doy == doe - (365 * yoe + yoe \div 4 - yoe \div 100)
        mp == (5 * doy + 2) \div 153
        d == doy - (153 * mp + 2) \div 5 + 1
        m == IF mp < 10 THEN mp + 3 ELSE mp - 9
    IN  [y |-> yoe + era * 400 + (IF m <= 2 THEN 1 ELSE 0), m |-> m, d |-> d]

\* the fields of a text that starts with YYYY-MM-DD
DateFields(text) ==
    [y |-> ParseNat(SubSeq(text, 1, 4)),
     m |-> ParseNat(SubSeq(text, 6, 7)),
     d |-> ParseNat(SubSeq(text, 9, 10))]

StartsWithDate(text) ==
    /\ Len(text) >= 10
    /\ IsDigits(SubSeq(text, 1, 4)) /\ Char(text, 5) = "-"
    /\ IsDigits(SubSeq(text, 6, 7)) /\ Char(text, 8) = "-"
    /\ IsDigits(SubSeq(text, 9, 10))
    /\ LET date == DateFields(text)
       IN  date.m \in 1..12 /\ date.d \in 1..DaysInMonth(date.y, date.m)

\* a text read as a date: YYYY-MM-DD and nothing else
parse_date(text) ==
    IF StartsWithDate(text) /\ Len(text) = 10
    THEN LET date == DateFields(text) IN Read(days_from_civil(date.y, date.m, date.d))
    ELSE Unreadable

\* the fields of a text that continues with THH:MM:SS
TimeFields(text) ==
    [h |-> ParseNat(SubSeq(text, 12, 13)),
     mi |-> ParseNat(SubSeq(text, 15, 16)),
     sec |-> ParseNat(SubSeq(text, 18, 19))]

\* a text read as a date-time.  The cast reads the date and the time of day
\* and builds the naive date-time from them; what follows the seconds (a
\* fraction, Z or an offset) does not change the fields read
parse_datetime(text) ==
    IF /\ StartsWithDate(text)
       /\ Len(text) >= 19
       /\ Char(text, 11) = "T"
       /\ IsDigits(SubSeq(text, 12, 13)) /\ Char(text, 14) = ":"
       /\ IsDigits(SubSeq(text, 15, 16)) /\ Char(text, 17) = ":"
       /\ IsDigits(SubSeq(text, 18, 19))
       /\ LET time == TimeFields(text)
          IN  time.h <= 23 /\ time.mi <= 59 /\ time.sec <= 59
    THEN LET date == DateFields(text)
             time == TimeFields(text)
         IN  Read(days_from_civil(date.y, date.m, date.d) * 86400
                    + time.h * 3600 + time.mi * 60 + time.sec)
    ELSE Unreadable

\* the day of the week of a day number, 0 for Sunday
Weekday(z) == (z + 4) % 7

\* the first Sunday on or after day `from` of month m of year y
SundayFrom(y, m, from) ==
    CHOOSE d \in from..(from + 6) : Weekday(days_from_civil(y, m, d)) = 0

\* the offset from UTC of America/New_York at a UTC instant, in seconds:
\* daylight time runs from the second Sunday of March, 07:00 UTC, to the
\* first Sunday of November, 06:00 UTC
eastern_offset(instant) ==
    LET y == civil_from_days(instant \div 86400).y
        start == days_from_civil(y, 3, SundayFrom(y, 3, 8)) * 86400 + 7 * 3600
        end == days_from_civil(y, 11, SundayFrom(y, 11, 1)) * 86400 + 6 * 3600
    IN  IF start <= instant /\ instant < end THEN 0 - 4 * 3600 ELSE 0 - 5 * 3600

\* the offset from UTC of a zone at a UTC instant; a naive date-time has none
utc_offset(zone, instant) ==
    IF zone = "America/New_York" THEN eastern_offset(instant) ELSE 0

Two(k) == ZeroPad(ToString(k), 2)

\* str() of a date-time cell without its offset: the local date and time
datetime_text(cell) ==
    LET local == cell.n + utc_offset(cell.s[1], cell.n)
        date == civil_from_days(local \div 86400)
        secs == local % 86400
    IN  ZeroPad(ToString(date.y), 4) \o "-" \o Two(date.m) \o "-" \o Two(date.d)
            \o "T" \o Two(secs \div 3600) \o ":" \o Two((secs % 3600) \div 60)
            \o ":" \o Two(secs % 60)

(***************************************************************************)
(* Casting cells.                                                          *)
(***************************************************************************)
\* a text read as a value of the target type (a decimal at the given scale)
cast_text(text, dtype, scale) ==
    CASE dtype = "Decimal" -> deserialize_decimal(text, scale)
      [] dtype = "Int64" -> parse_integer(text)
      [] dtype = "Date" -> parse_date(text)
      [] dtype = "Datetime" -> parse_datetime(text)

\* whether a string value by itself parses as the target type
Parses(text, dtype) == cast_text(text, dtype, infer_scale(text)).ok

\* a typed cell of a data frame: the value n of type dtype, with the scale
\* of a decimal and the time zone of a date-time ("" when it has none)
Typed(dtype, n, scale, zone) ==
    [t |-> dtype, n |-> n, s |-> <<zone>>, e |-> scale]

\* Expr.cast applied to one cell: null stays null, a value that does not
\* parse is an error (reported as ok = FALSE)
\* the cell a cast gives for what was read from the text
cast_value(dtype, scale, read) ==
    IF read.ok
    THEN [ok |-> TRUE,
          v |-> Typed(dtype, read.n, IF dtype = "Decimal" THEN scale ELSE 0, "")]
    ELSE [ok |-> FALSE, v |-> PyNone]

cast_cell(cell, dtype, scale) ==
    IF cell.t = "none" THEN [ok |-> TRUE, v |-> PyNone]
    ELSE IF cell.t # "str" THEN [ok |-> FALSE, v |-> PyNone]
    ELSE cast_value(dtype, scale, cast_text(cell.s[1], dtype, scale))

\* dt.replace_time_zone: the wall clock is kept and labelled with the zone
replace_time_zone(cell) ==
    IF cell.t = "Datetime"
    THEN Typed("Datetime", cell.n - eastern_offset(cell.n), 0, "America/New_York")
    ELSE cell

\* dt.convert_time_zone('America/New_York') applied to one cell: the instant
\* is kept (a naive date-time is taken as UTC) and shown in the zone
convert_time_zone(cell) ==
    IF cell.t = "Datetime" THEN Typed("Datetime", cell.n, 0, "America/New_York")
    ELSE cell

(***************************************************************************)
(* Data frames: the set of column names and the rows, each a function from *)
(* the column names to cells (PyNone is null).                             *)
(***************************************************************************)
\* pl.DataFrame(rows) for a list of records: one row per record, the columns
\* are the keys met, a key a record lacks is null in its row
frame_from_rows(rows) ==
    LET cols == UNION {DOMAIN rows[i] : i \in 1..Len(rows)}
    IN  [columns |-> cols,
         rows |-> [i \in 1..Len(rows) |->
                     [c \in cols |-> IF c \in DOMAIN rows[i] THEN rows[i][c]
                                     ELSE PyNone]]]

Max(S) == CHOOSE x \in S : \A y \in S : y <= x

\* pl.DataFrame(rec) for one mapping: the keys are the columns and the
\* values are the columns' contents; a list value is a column of that many
\* rows and a scalar is repeated to the height of the frame (1 when no
\* value is a list); lists of different lengths are a ShapeError
frame_from_mapping(rec) ==
    LET lists == {c \in DOMAIN rec : rec[c].t = "list"}
        lens == {Len(rec[c].s) : c \in lists}
        height == IF lists = {} THEN 1 ELSE Max(lens)
    IN  IF Cardinality(lens) > 1 THEN [ok |-> FALSE, df |-> EmptyDF]
        ELSE [ok |-> TRUE,
              df |-> [columns |-> DOMAIN rec,
                      rows |-> [i \in 1..height |->
                                  [c \in DOMAIN rec |->
                                      IF c \in lists THEN PyStr(rec[c].s[i])
                                      ELSE rec[c]]]]]

\* the casts of with_columns that can be applied to the frame
casts_applied(f, df) ==
    IF guarded_cast(f) THEN TableFields(f) \cap df.columns ELSE TableFields(f)

\* the number of leading values the library reads to infer a scale
infer_length == 100

\* the scale cast(pl.Decimal) gives a column: the largest scale among its
\* leading values, read up to the first null and to infer_length values
column_scale(df, c) ==
    LET lead == {i \in 1..Len(df.rows) :
                    i <= infer_length /\ \A j \in 1..i : df.rows[j][c].t = "str"}
    IN  IF lead = {} THEN 0
        ELSE Max({infer_scale(df.rows[i][c].s[1]) : i \in lead})

\* with_columns(pl.col(..).cast(..), ...) and the time zone conversion
cast_frame(f, df) ==
    LET todo == casts_applied(f, df)
        scale == [c \in todo \cap df.columns |->
                    IF DtypeOf(f, c) = "Decimal" THEN column_scale(df, c) ELSE 0]
        cells == [i \in 1..Len(df.rows) |->
                    [c \in todo \cap df.columns |->
                        cast_cell(df.rows[i][c], DtypeOf(f, c), scale[c])]]
        casted(i, c) == cells[i][c]
        bad == {c \in todo \cap df.columns :
                   \E i \in 1..Len(df.rows) : ~casted(i, c).ok}
        zoned(c, v) == IF <<c>> = tz_column(f) THEN convert_time_zone(v) ELSE v
    IN  IF ~(todo \subseteq df.columns)
        THEN Raise("ColumnNotFoundError", "", 0, "")
        ELSE IF strict_cast(f) /\ bad # {}
        THEN Raise("InvalidOperationError", "", 0, "")
        ELSE Return([columns |-> df.columns,
                     rows |-> [i \in 1..Len(df.rows) |->
                                 [c \in df.columns |->
                                     IF c \in todo
                                     THEN zoned(c, casted(i, c).v)
                                     ELSE df.rows[i][c]]]])

\* the statements of the try block after raise_for_status, for a 2xx response
normalize(f, body) ==
    IF body.k = "invalid" THEN Raise("JSONDecodeError", "", 0, "")
    ELSE IF body.k # "map"
    THEN Raise(IF subscripts_data(f) THEN "TypeError" ELSE "AttributeError", "", 0, "")
    ELSE IF body.data.k = "missing" /\ subscripts_data(f)
    THEN Raise("KeyError", "", 0, "data")
    ELSE IF ~DataTruthy(body.data) THEN Return(EmptyDF)
    ELSE LET made == IF body.data.k = "list" \/ wraps_single_record(f)
                     THEN [ok |-> TRUE, df |-> frame_from_rows(body.data.rows)]
                     ELSE frame_from_mapping(body.data.rows[1])
         IN  IF ~made.ok THEN Raise("ShapeError", "", 0, "")
             ELSE cast_frame(f, made.df)

(***************************************************************************)
(* What the network can answer.                                            *)
(***************************************************************************)
NoResponse == [ev |-> "none", status |-> 0, body |-> Body("", "invalid", FALSE, <<>>, NoData)]
Response(status, body) == [ev |-> "response", status |-> status, body |-> body]
TimedOut == [ev |-> "timeout", status |-> 0, body |-> Body("", "invalid", FALSE, <<>>, NoData)]
ConnectFailed ==
    [ev |-> "connect_error", status |-> 0, body |-> Body("", "invalid", FALSE, <<>>, NoData)]

\* Response.is_success
is_success_below_400(status) == 200 <= status /\ status < 400

is_success(status) == 200 <= status /\ status <= 299

(***************************************************************************)
(* The handlers of the try statement.                                      *)
(***************************************************************************)
Result(out, lg) == [out |-> out, log |-> lg]

LogEntry(level, msg) == [level |-> level, msg |-> msg]

\* the message of the error raised for a 404
not_found_message(f) ==
    IF f = "get_institution_holdings" THEN "Resource not found for institution"
    ELSE "Resource not found"

\* the exceptions the inner `except` of get_ticker_info's 404 branch catches
not_found_fallback_narrow == "JSONDecodeError"
not_found_fallback_class == "Exception"

\* the inner try block of get_ticker_info's 404 branch
ticker_not_found_try(body) ==
    IF body.k = "invalid" THEN Result(Raise("JSONDecodeError", "", 0, ""), <<>>)
    ELSE IF ~body.truthy
    THEN Result(Return(EmptyDF),
                <<LogEntry("warning", <<"Ticker info not found", "Returning empty DataFrame">>)>>)
    ELSE IF body.k # "map" THEN Result(Raise("AttributeError", "", 0, ""), <<>>)
    ELSE IF body.message = <<"Not Found">>
    THEN Result(Return(EmptyDF),
                <<LogEntry("warning", <<"Ticker info not found", "Returning empty DataFrame">>)>>)
    ELSE Result(Raise("ValueError", "Resource not found", 0, body.text), <<>>)

\* the 404 branch of get_ticker_info: the inner try and its except clause
ticker_not_found(body) ==
    LET r == ticker_not_found_try(body)
    IN  IF r.out.kind = "raise" /\ IsSubclass(r.out.exc, not_found_fallback_class)
        THEN Result(Return(EmptyDF),
                    <<LogEntry("warning",
                               <<"Ticker info not found", "non-JSON 404 response",
                                 "Returning empty DataFrame">>)>>)
        ELSE r

\* the tools whose 404 branch returns an empty frame instead of raising
swallows_404_wide(f) == f \in {"get_ticker_info", "get_stock_state"}
swallows_404(f) == f = "get_ticker_info"

\* the status code the rate-limit branch tests for
rate_limit_status_absent == 0 - 1
rate_limit_status == 429

\* except httpx.HTTPStatusError as e
http_status_error(f, net) ==
    IF net.status = 401
    THEN Result(Raise("ValueError", "Invalid or missing API key", 0, ""), <<>>)
    ELSE IF net.status = 404
    THEN IF swallows_404(f) THEN ticker_not_found(net.body)
         ELSE Result(Raise("ValueError", not_found_message(f), 0, net.body.text), <<>>)
    ELSE IF net.status = rate_limit_status
    THEN Result(Raise("ValueError", "Rate limit exceeded", 0, ""), <<>>)
    ELSE Result(Raise("ValueError", "HTTP error", net.status, net.body.text), <<>>)

\* the try block: client.get, raise_for_status and the normalisation
try_block(f, net) ==
    CASE net.ev = "timeout" -> Raise("ReadTimeout", "", 0, "timed out")
      [] net.ev = "connect_error" -> Raise("ConnectError", "", 0, "connection refused")
      [] net.ev = "response" /\ ~is_success(net.status) ->
            Raise("HTTPStatusError", "", net.status, net.body.text)
      [] OTHER -> normalize(f, net.body)

\* the except clauses applied to the result r of the try block: the first
\* clause that matches what it raised runs; an error raised inside a clause is
\* not handled by the clauses after it
except_clause(f, net, r) ==
    LET clause == IF r.kind = "raise" THEN matching_clause(f, r.exc) ELSE ""
    IN  CASE clause = "HTTPStatusError" -> http_status_error(f, net)
          [] clause = "RequestError" ->
                Result(Raise("ConnectionError", "Network error", 0, r.text), <<>>)
          [] clause = "TimeoutException" ->
                Result(Raise("TimeoutError", "Request timed out", 0, ""), <<>>)
          [] clause = "Exception" ->
                Result(r, <<LogEntry("error", <<"An unexpected error occurred in", f>>)>>)
          [] OTHER -> Result(r, <<>>)

\* the whole try statement: the try block, then its except clauses
try_statement(f, net) == except_clause(f, net, try_block(f, net))

(***************************************************************************)
(* The responses the model lets the remote give.                           *)
(***************************************************************************)
Without(rec, c) == [x \in DOMAIN rec \ {c} |-> rec[x]]
With(rec, c, v) == [x \in DOMAIN rec \cup {c} |-> IF x = c THEN v ELSE rec[x]]

\* a record with every field of the coercion table well formed, and one
\* field the table does not name
BaseRecord(f) ==
    [c \in TableFields(f) \cup {"ticker"} |->
        IF c \in TableFields(f) THEN PyStr(WellFormedText(DtypeOf(f, c)))
        ELSE PyStr("AAPL")]

\* the fields the source says hold arrays
array_fields(f) ==
    CASE f = "get_institution_holdings" -> {"historical_units"}
      [] f = "get_insider_transactions" -> {"ids"}
      [] f = "get_news_headlines" -> {"tags", "tickers"}
      [] OTHER -> {}

RecordVariants(f) ==
    {BaseRecord(f)}
    \cup {Without(BaseRecord(f), c) : c \in TableFields(f)}
    \cup {With(BaseRecord(f), c, PyStr(MalformedText)) : c \in TableFields(f)}
    \cup UNION {{With(BaseRecord(f), c, PyStr(text)) : text \in OtherTexts(DtypeOf(f, c))} :
                   c \in TableFields(f)}

ArrayVariants(f) ==
    {With(BaseRecord(f), c, PyList(<<"a", "b">>)) : c \in array_fields(f)}

RECURSIVE Repeat(_, _)
Repeat(x, k) == IF k = 0 THEN <<>> ELSE <<x>> \o Repeat(x, k - 1)

RowLists(f) ==
    {Repeat(BaseRecord(f), k - 1) \o <<v>> : k \in 1..MaxRows, v \in RecordVariants(f)}
    \cup {<<v>> \o Repeat(BaseRecord(f), k - 1) : k \in 1..MaxRows, v \in RecordVariants(f)}

SuccessBodies(f) ==
    {Body("not json", "invalid", FALSE, <<>>, NoData),
     Body("[1]", "list", TRUE, <<>>, NoData),
     Body("{}", "map", FALSE, <<>>, NoData),
     Body("{meta}", "map", TRUE, <<>>, NoData),
     Body("{data: null}", "map", TRUE, <<>>, NullData),
     Body("{data: []}", "map", TRUE, <<>>, ListData(<<>>)),
     Body("{data: {}}", "map", TRUE, <<>>, MapData(EmptyRecord))}
    \cup {Body("{data: [..]}", "map", TRUE, <<>>, ListData(rows)) : rows \in RowLists(f)}
    \cup {Body("{data: {..}}", "map", TRUE, <<>>, MapData(rec)) :
             rec \in RecordVariants(f) \cup ArrayVariants(f)}

ErrorBodies ==
    {Body("", "invalid", FALSE, <<>>, NoData),
     Body("<html>", "invalid", FALSE, <<>>, NoData),
     Body("{message: Not Found}", "map", TRUE, <<"Not Found">>, NoData),
     Body("{message: Unknown}", "map", TRUE, <<"Unknown">>, NoData),
     Body("{error: x}", "map", TRUE, <<>>, NoData),
     Body("{}", "map", FALSE, <<>>, NoData),
     Body("[]", "list", FALSE, <<>>, NoData),
     Body("[1]", "list", TRUE, <<>>, NoData),
     Body("null", "null", FALSE, <<>>, NoData),
     Body("'Not Found'", "str", TRUE, <<>>, NoData)}

Statuses == {200, 302, 401, 404, 429, 500}

Bodies(f, status) == IF is_success(status) THEN SuccessBodies(f) ELSE ErrorBodies

\* one body for each kind of status
PlainBodies(f, status) ==
    IF is_success(status)
    THEN {Body("{data: [..]}", "map", TRUE, <<>>, ListData(<<BaseRecord(f)>>))}
    ELSE {Body("{error: x}", "map", TRUE, <<>>, NoData)}

(***************************************************************************)
(* State machine.                                                          *)
(***************************************************************************)
\* os.getenv('UNUSUAL_WHALES_API_TOKEN')
uw_token == PyStr("token")

\* the module-level headers mapping
module_headers ==
    [Accept |-> PyStr("application/json, text/plain"), Authorization |-> uw_token]

Invocations == 1..MaxCalls

NoRequest == [url |-> <<>>, params |-> <<>>, headers |-> <<>>]

\* an invocation that has not started
NotCalled ==
    [pc |-> "idle", tool |-> "", args |-> <<>>, sent |-> NoRequest,
     answer |-> NoResponse, out |-> NoOutcome, log |-> <<>>, raced |-> FALSE]

\* the local variables url, params and rsp of a function that is not running
NoFrame == [url |-> <<>>, params |-> <<>>, rsp |-> NoResponse]

Init ==
    /\ headers = module_headers
    /\ calls = [i \in Invocations |-> NotCalled]
    /\ frames = [i \in Invocations |-> NoFrame]
    /\ pc = "idle"
    /\ tool = ""
    /\ args = <<>>
    /\ url = <<>>
    /\ params = <<>>
    /\ requests = 0
    /\ rsp = NoResponse
    /\ outcome = NoOutcome
    /\ log = <<>>

\* the tool f is called with the bound arguments a: the query mapping is
\* built and the GET is issued
Call(f, a) ==
    /\ pc = "idle"
    /\ tool' = f
    /\ args' = a
    /\ url' = build_url(f, a)
    /\ params' = build_params(f, a)
    /\ requests' = 1
    /\ rsp' = NoResponse
    /\ outcome' = NoOutcome
    /\ log' = <<>>
    /\ pc' = "sent"
    /\ UNCHANGED <<headers, calls, frames>>

\* a handler that issues the GET again after a timeout
retries_after_timeout(f, net) == IF net.ev = "timeout" THEN 1 ELSE 0

\* the number of times the except clauses of f issue the GET again: client.get
\* is called once, in the try block, and in no loop
retries(f, net) == 0

\* the rest of the call, once the network has answered with `net`
Complete(net) ==
    /\ pc = "sent"
    /\ rsp' = net
    /\ requests' = requests + retries(tool, net)
    /\ LET r == try_statement(tool, net)
       IN  outcome' = r.out /\ log' = r.log
    /\ pc' = "done"
    /\ UNCHANGED <<tool, args, url, params, headers, calls, frames>>

\* a call with any arguments
Invoke ==
    /\ pc = "idle"
    /\ \E f \in Tools : \E a \in CallArgs(f, MaxChanged) : Call(f, a)

\* a call that passes the required arguments only
InvokePlain ==
    /\ pc = "idle"
    /\ \E f \in Tools : \E a \in CallArgs(f, 0) : Call(f, a)

\* the remote answers with a status and a body
Respond ==
    /\ pc = "sent"
    /\ \E status \in Statuses : \E body \in Bodies(tool, status) :
          Complete(Response(status, body))

\* the remote answers with a status and the plain body of that status
RespondPlain ==
    /\ pc = "sent"
    /\ \E status \in Statuses : \E body \in PlainBodies(tool, status) :
          Complete(Response(status, body))

\* no answer within the client's timeout
Timeout ==
    /\ pc = "sent"
    /\ Complete(TimedOut)

\* the connection cannot be made
TransportFailure ==
    /\ pc = "sent"
    /\ Complete(ConnectFailed)

\* calls with any arguments, answered plainly
Next == Invoke \/ RespondPlain \/ Timeout \/ TransportFailure

\* calls with the required arguments, answered with any body
NextBodies == InvokePlain \/ Respond \/ Timeout \/ TransportFailure

SpecBodies == Init /\ [][NextBodies]_vars

(***************************************************************************)
(* Concurrent invocations.  Each invocation runs the same statements as a  *)
(* single call, in four steps that can interleave with the steps of the    *)
(* other invocations: it builds url and params, issues the GET, gets the   *)
(* response, and handles it.                                               *)
(***************************************************************************)
\* all invocations keeping their local variables in one place
locals_shared(i) == 1

\* where invocation i keeps its local variables: every call of a function
\* has a frame of its own, and the client is created inside the call
locals_of(i) == i

\* the calls the concurrent invocations make
ConcurrentCalls ==
    {[tool |-> f, args |-> a] :
        f \in {"get_institution_holdings"}, a \in CallArgs("get_institution_holdings", 0)}
    \cup {[tool |-> "get_insider_transactions", args |-> a] :
             a \in {b \in CallArgs("get_insider_transactions", 1) :
                       Len(b["transaction_codes"].s) > 0}}

\* the answers the remote gives them
ConcurrentAnswers(f) ==
    {Response(200, body) : body \in PlainBodies(f, 200)}
    \cup {Response(404, body) : body \in PlainBodies(f, 404)}

InProgress(i) == calls[i].pc \in {"built", "sent", "received"}

\* invocation i starts: url and params are assigned
BeginCall(i, c) ==
    /\ calls[i].pc = "idle"
    /\ calls' = [calls EXCEPT ![i] =
                    [NotCalled EXCEPT !.pc = "built", !.tool = c.tool, !.args = c.args]]
    /\ frames' = [frames EXCEPT ![locals_of(i)] =
                     [url |-> build_url(c.tool, c.args),
                      params |-> build_params(c.tool, c.args),
                      rsp |-> NoResponse]]
    /\ UNCHANGED <<headers, single>>

\* client.get(url, params=params, headers=headers) is issued
SendCall(i) ==
    /\ calls[i].pc = "built"
    /\ calls' = [calls EXCEPT ![i].pc = "sent",
                              ![i].sent = [url |-> frames[locals_of(i)].url,
                                           params |-> frames[locals_of(i)].params,
                                           headers |-> headers]]
    /\ UNCHANGED <<frames, headers, single>>

\* the client of invocation i gets its answer, which is assigned to rsp
ReceiveCall(i, net) ==
    /\ calls[i].pc = "sent"
    /\ calls' = [calls EXCEPT ![i].pc = "received", ![i].answer = net]
    /\ frames' = [frames EXCEPT ![locals_of(i)].rsp = net]
    /\ UNCHANGED <<headers, single>>

\* the rest of the try statement runs on rsp
FinishCall(i) ==
    /\ calls[i].pc = "received"
    /\ LET r == try_statement(calls[i].tool, frames[locals_of(i)].rsp)
       IN  calls' = [calls EXCEPT ![i].pc = "done", ![i].out = r.out, ![i].log = r.log,
                                  ![i].raced = \E j \in Invocations \ {i} : InProgress(j)]
    /\ UNCHANGED <<frames, headers, single>>

Begin == \E i \in Invocations : \E c \in ConcurrentCalls : BeginCall(i, c)

Send == \E i \in Invocations : SendCall(i)

Receive ==
    \E i \in Invocations :
        /\ calls[i].pc = "sent"
        /\ \E net \in ConcurrentAnswers(calls[i].tool) : ReceiveCall(i, net)

Finish == \E i \in Invocations : FinishCall(i)

NextConcurrent == Begin \/ Send \/ Receive \/ Finish

SpecConcurrent == Init /\ [][NextConcurrent]_vars

Spec == Init /\ [][Next]_vars

(***************************************************************************)
(* Vocabulary of the properties.                                           *)
(***************************************************************************)
Called == pc \in {"sent", "done"}
Done == pc = "done"
Answered == Done /\ rsp.ev = "response"
Succeeded == Answered /\ is_success(rsp.status)

\* the parameters whose value is substituted into the URL
path_params(f) ==
    CASE f \in {"get_ticker_info", "get_stock_state"} -> {"ticker"}
      [] f = "get_institution_holdings" -> {"name"}
      [] OTHER -> {}

\* the wire key of a list parameter: its name with the array suffix
ArrayKey(name) ==
    CASE name = "issue_types" -> "issue_types[]"
      [] name = "rule_name" -> "rule_name[]"
      [] name = "security_types" -> "security_types[]"
      [] name = "transaction_codes" -> "transaction_codes[]"
      [] OTHER -> name

\* the keys of the query mapping that carry parameter `name`
SentAs(name) == {name, ArrayKey(name)} \cap DOMAIN params

ListParams(f) == {name \in ParamSet(f) : ParamOf(f, name).type = "list"}

\* whether field c of a response record is present and parses as its type
WellFormedCell(f, rec, c) ==
    /\ c \in DOMAIN rec
    /\ rec[c].t = "str"
    /\ Parses(rec[c].s[1], DtypeOf(f, c))

\* whether a response record has every field of the coercion table, well formed
WellFormedRecord(f, rec) == \A c \in TableFields(f) : WellFormedCell(f, rec, c)

(***************************************************************************)
(* C1.  A parameter whose passed value equals the default its signature    *)
(* declares never appears in the outgoing query mapping.                   *)
(* Fails: get_institution_holdings pairs its defaults with the wrong       *)
(* names, so limit=500, page=0 and order_direction='desc' are sent.        *)
(***************************************************************************)
C1_DefaultNeverSent ==
    Called =>
        \A name \in OptionalParams(tool) :
            PyEq(args[name], DeclaredDefault(tool, name)) => SentAs(name) = {}

(***************************************************************************)
(* C2.  A non-path parameter passed a value that is not None and differs   *)
(* from its declared default appears in the outgoing query mapping with    *)
(* the passed value.                                                       *)
(* Fails: get_institution_holdings drops order='desc' and limit=0.         *)
(***************************************************************************)
C2_NonDefaultAlwaysSent ==
    (Called /\ SendsParams(tool)) =>
        \A name \in OptionalParams(tool) \ path_params(tool) :
            (~PyEq(args[name], PyNone) /\ ~PyEq(args[name], DeclaredDefault(tool, name)))
                => \E k \in SentAs(name) : params[k] = args[name]

(***************************************************************************)
(* C3.  A request that exceeds the timeout ends the call with a            *)
(* TimeoutError, never with the ConnectionError of a transport failure.    *)
(* Fails: the RequestError clause precedes the TimeoutException clause and *)
(* TimeoutException is a RequestError.                                     *)
(***************************************************************************)
C3_TimeoutIsTimeoutError ==
    (Done /\ rsp.ev = "timeout") =>
        (outcome.kind = "raise" /\ outcome.exc = "TimeoutError")

(***************************************************************************)
(* C4 as stated.  The error raised for a 401 or a 429 is of a kind (an     *)
(* exception class) different from the kind raised for any other failure   *)
(* status.                                                                 *)
(***************************************************************************)
C4_StatusErrorsDistinctByKind ==
    (Answered /\ rsp.status \in {401, 429}) =>
        /\ outcome.kind = "raise"
        /\ \A st \in Statuses \ {rsp.status} : \A b \in ErrorBodies :
              LET other == try_statement(tool, Response(st, b)).out
              IN  (~is_success(st) /\ other.kind = "raise") => other.exc # outcome.exc

(***************************************************************************)
(* C4 as amended.  A 401 ends the call with ValueError('Invalid or missing *)
(* API key') and a 429 with ValueError('Rate limit exceeded'); every other *)
(* failure status that raises also raises a ValueError, with a message     *)
(* different from these two: the outcomes differ by message, not by class. *)
(***************************************************************************)
C4_StatusErrorsDistinctByMessage ==
    (Answered /\ ~is_success(rsp.status)) =>
        /\ rsp.status = 401 =>
              outcome = Raise("ValueError", "Invalid or missing API key", 0, "")
        /\ rsp.status = 429 =>
              outcome = Raise("ValueError", "Rate limit exceeded", 0, "")
        /\ (rsp.status \notin {401, 429} /\ outcome.kind = "raise") =>
              /\ outcome.exc = "ValueError"
              /\ outcome.msg \notin {"Invalid or missing API key", "Rate limit exceeded"}

C4_Witness ==
    /\ Answered
    /\ rsp.status = 429
    /\ outcome.msg = "Rate limit exceeded"

(***************************************************************************)
(* C5.  A 2xx response whose JSON mapping has `data` null, missing or an   *)
(* empty sequence yields an empty frame and raises nothing.                *)
(* Fails: get_flow_alerts subscripts ['data'], a KeyError when it is       *)
(* missing.                                                                *)
(***************************************************************************)
C5_NoDataIsEmptyFrame ==
    (/\ Succeeded
     /\ rsp.body.k = "map"
     /\ \/ rsp.body.data.k \in {"missing", "null"}
        \/ rsp.body.data = ListData(<<>>))
        => outcome = Return(EmptyDF)

C7_NotFoundRaises ==
    (Answered /\ rsp.status = 404 /\ tool # "get_ticker_info") =>
        /\ outcome.kind = "raise"
        /\ outcome.exc = "ValueError"
        /\ outcome.msg \in {"Resource not found", "Resource not found for institution"}
        /\ outcome.text = rsp.body.text
        /\ outcome.df = EmptyDF
        /\ log = <<>>

C7_Witness ==
    /\ Answered
    /\ rsp.status = 404
    /\ tool = "get_stock_state"
    /\ rsp.body.text = "<html>"
    /\ outcome.kind = "raise"

(***************************************************************************)
(* C8.  A 2xx response whose `data` is a single non-empty mapping (here    *)
(* with every coerced field present and well formed) yields a frame with   *)
(* exactly one row.                                                        *)
(* Fails: only get_ticker_info and get_stock_state wrap the mapping; the   *)
(* others hand it to pl.DataFrame, which reads it column-wise.             *)
(***************************************************************************)
C8_SingleMappingOneRow ==
    (/\ Succeeded
     /\ rsp.body.k = "map"
     /\ rsp.body.data.k = "map"
     /\ DataTruthy(rsp.body.data)
     /\ WellFormedRecord(tool, rsp.body.data.rows[1]))
        => (outcome.kind = "return" /\ Len(outcome.df.rows) = 1)

(***************************************************************************)
(* C9.  For every endpoint other than flow-alerts, a 2xx response with a   *)
(* non-empty sequence of records in which a coerced field is absent or     *)
(* malformed yields a frame with one row per record, with no value for     *)
(* that field in that record, and raises nothing.                          *)
(* Fails: a field absent from every record is a missing column, and every  *)
(* tool but get_ticker_info casts it without looking.                      *)
(***************************************************************************)
C9_TolerantCoercion ==
    (/\ Succeeded
     /\ tool # "get_flow_alerts"
     /\ rsp.body.k = "map"
     /\ rsp.body.data.k = "list"
     /\ DataTruthy(rsp.body.data))
        => /\ outcome.kind = "return"
           /\ Len(outcome.df.rows) = Len(rsp.body.data.rows)
           /\ \A i \in 1..Len(rsp.body.data.rows) : \A c \in TableFields(tool) :
                 ~WellFormedCell(tool, rsp.body.data.rows[i], c) =>
                    (c \in outcome.df.columns => outcome.df.rows[i][c] = PyNone)

(***************************************************************************)
(* C10.  A list-typed parameter present in the query mapping is sent under *)
(* its array key '<name>[]'; the plain key '<name>' is absent.             *)
(* Fails: only get_insider_transactions re-keys its list parameter.        *)
(***************************************************************************)
C10_ListParamsRekeyed ==
    Called =>
        \A name \in ListParams(tool) :
            /\ name \notin DOMAIN params
            /\ (args[name].t = "list") => ArrayKey(name) \in DOMAIN params

(***************************************************************************)
(* C11.  The query mapping of get_flow_alerts, in both source files, is    *)
(* exactly the pairs (name, value) of the parameters whose passed value is *)
(* not None and differs from the parameter's declared default; a call with *)
(* is_call=True and nothing else yields {"is_call": True}.                 *)
(***************************************************************************)
ExpectedFlowParams ==
    [name \in {x \in ParamSet("get_flow_alerts") :
                  /\ ~PyEq(args[x], PyNone)
                  /\ ~PyEq(args[x], DeclaredDefault("get_flow_alerts", x))} |->
        args[name]]

OnlyIsCall ==
    \A x \in ParamSet("get_flow_alerts") :
        args[x] = IF x = "is_call" THEN PyBool(TRUE)
                  ELSE DeclaredDefault("get_flow_alerts", x)

C11_FlowAlertsParamsExact ==
    (Called /\ tool = "get_flow_alerts") =>
        /\ params = ExpectedFlowParams
        /\ package_get_flow_alerts_params(args) = ExpectedFlowParams
        /\ OnlyIsCall => params = [x \in {"is_call"} |-> PyBool(TRUE)]

C11_Witness ==
    /\ Called
    /\ tool = "get_flow_alerts"
    /\ OnlyIsCall
    /\ DOMAIN params = {"is_call"}

(***************************************************************************)
(* C12.  A path parameter (ticker of get_ticker_info and get_stock_state,  *)
(* name of get_institution_holdings) is substituted into the URL and is    *)
(* never a key of the query mapping.                                       *)
(***************************************************************************)
C12_PathParamNotInQuery ==
    Called =>
        \A p \in path_params(tool) :
            /\ p \notin DOMAIN params
            /\ SentAs(p) = {}
            /\ Len(url) = 4
            /\ url[3] = args[p].s[1]

C12_Witness ==
    /\ Called
    /\ tool = "get_institution_holdings"
    /\ DOMAIN params # {}
    /\ "name" \notin DOMAIN params
    /\ url[3] = args["name"].s[1]

(***************************************************************************)
(* C13.  A response whose status is outside 2xx and is none of 401, 404    *)
(* and 429 ends the call with the remote error that carries the status     *)
(* code and the body text; such a call never returns a frame.              *)
(***************************************************************************)
C13_OtherStatusIsRemoteError ==
    (Answered /\ rsp.status \notin 200..299 /\ rsp.status \notin {401, 404, 429}) =>
        /\ outcome = Raise("ValueError", "HTTP error", rsp.status, rsp.body.text)
        /\ outcome.kind # "return"
        /\ log = <<>>

C13_Witness ==
    /\ Answered
    /\ rsp.status = 302
    /\ rsp.body.text # ""
    /\ outcome.kind = "raise"
    /\ outcome.code = 302
    /\ outcome.text = rsp.body.text

(***************************************************************************)
(* C16.  A call issues exactly one GET: none before the query mapping is   *)
(* built, one once it is built and before anything of the response is      *)
(* normalised, and no further one after a failure or a timeout.            *)
(***************************************************************************)
C16_ExactlyOneGet ==
    /\ pc = "idle" => requests = 0
    /\ pc = "sent" =>
          /\ requests = 1
          /\ params = build_params(tool, args)
          /\ rsp = NoResponse
          /\ outcome = NoOutcome
    /\ Done => requests = 1

C16_Witness ==
    /\ Done
    /\ rsp.ev = "timeout"
    /\ outcome.kind = "raise"
    /\ requests = 1

(***************************************************************************)
(* C17.  For every tool, get_flow_alerts included, an unexpected failure   *)
(* while a 2xx response is decoded or normalised reaches the caller        *)
(* unchanged, after an error entry naming the tool has been logged; it is  *)
(* never swallowed and never turned into an empty frame.                   *)
(***************************************************************************)
LogsErrorNaming(f) ==
    \E i \in DOMAIN log : log[i].level = "error" /\ log[i].msg[2] = f

C17_UnexpectedFailureLoggedAndRaised ==
    (Succeeded /\ normalize(tool, rsp.body).kind = "raise") =>
        /\ outcome = normalize(tool, rsp.body)
        /\ LogsErrorNaming(tool)

(***************************************************************************)
(* C14.  A tape timestamp given in UTC (created_at of get_flow_alerts and  *)
(* get_news_headlines, tape_time of get_stock_state) is returned as the    *)
(* local time of America/New_York at that instant: 2024-01-15T20:30:00Z is *)
(* returned as 2024-01-15T15:30:00.                                        *)
(***************************************************************************)
EasternText(text) ==
    CASE text = DatetimeText -> "2024-01-15T15:30:00"
      [] text = SummerDatetimeText -> "2024-07-03T22:15:00"

C14_TapeTimeInEastern ==
    (Succeeded /\ tz_column(tool) # <<>> /\ outcome.kind = "return") =>
        \A i \in 1..Len(rsp.body.data.rows) :
            LET col == tz_column(tool)[1]
                rec == rsp.body.data.rows[i]
            IN  (/\ col \in DOMAIN rec
                 /\ rec[col].t = "str"
                 /\ rec[col].s[1] \in {DatetimeText, SummerDatetimeText}) =>
                    /\ outcome.df.rows[i][col].t = "Datetime"
                    /\ outcome.df.rows[i][col].s = <<"America/New_York">>
                    /\ datetime_text(outcome.df.rows[i][col]) = EasternText(rec[col].s[1])

C14_Witness ==
    /\ Succeeded
    /\ tool = "get_stock_state"
    /\ outcome.kind = "return"
    /\ Len(outcome.df.rows) = 1
    /\ rsp.body.data.rows[1]["tape_time"] = PyStr("2024-01-15T20:30:00Z")
    /\ datetime_text(outcome.df.rows[1]["tape_time"]) = "2024-01-15T15:30:00"

(***************************************************************************)
(* C15.  For every tool and every field it casts to a decimal, a decimal   *)
(* string of the response is returned as a decimal that prints back the    *)
(* same number with its fractional digits: "123.45" gives "123.45".        *)
(* Fails: the scale of a column is inferred from its leading values only,  *)
(* so after a record that lacks the field the value is read at scale 0.    *)
(***************************************************************************)
DecimalFields(f) == {c \in TableFields(f) : DtypeOf(f, c) = "Decimal"}

\* whether two decimal texts denote the same number
SameNumber(a, b) ==
    LET k == Max({infer_scale(a), infer_scale(b)})
    IN  /\ deserialize_decimal(a, k).ok
        /\ deserialize_decimal(b, k).ok
        /\ deserialize_decimal(a, k).n = deserialize_decimal(b, k).n

\* every column the tool casts exists, and every value of these columns is
\* absent or well formed
CastableRows(f, rows) ==
    /\ \A c \in TableFields(f) :
          guarded_cast(f) \/ \E i \in 1..Len(rows) : c \in DOMAIN rows[i]
    /\ \A i \in 1..Len(rows) : \A c \in TableFields(f) \cap DOMAIN rows[i] :
          rows[i][c] = PyNone \/ WellFormedCell(f, rows[i], c)

RoundTrips(text, cell) ==
    /\ cell.t = "Decimal"
    /\ SameNumber(text, decimal_text(cell))
    /\ infer_scale(decimal_text(cell)) >= infer_scale(text)

C15_DecimalRoundTrip ==
    (/\ Succeeded
     /\ rsp.body.data.k = "list"
     /\ rsp.body.data.rows # <<>>
     /\ CastableRows(tool, rsp.body.data.rows)) =>
        /\ outcome.kind = "return"
        /\ \A i \in 1..Len(rsp.body.data.rows) :
              \A c \in DecimalFields(tool) \cap DOMAIN rsp.body.data.rows[i] :
                  rsp.body.data.rows[i][c].t = "str" =>
                      RoundTrips(rsp.body.data.rows[i][c].s[1], outcome.df.rows[i][c])

(***************************************************************************)
(* C18.  However the steps of concurrent invocations interleave, each      *)
(* invocation sends the query mapping and ends with the outcome it has     *)
(* when it runs alone with the same arguments and the same response; the   *)
(* module-level headers (with the token) are read and never modified.      *)
(***************************************************************************)
C18_InvocationsIndependent ==
    /\ headers = module_headers
    /\ \A i \in Invocations :
          /\ calls[i].pc \in {"sent", "received", "done"} =>
                /\ calls[i].sent.url = build_url(calls[i].tool, calls[i].args)
                /\ calls[i].sent.params = build_params(calls[i].tool, calls[i].args)
                /\ calls[i].sent.headers = module_headers
          /\ calls[i].pc = "done" =>
                /\ calls[i].out = try_statement(calls[i].tool, calls[i].answer).out
                /\ calls[i].log = try_statement(calls[i].tool, calls[i].answer).log

C18_Witness ==
    /\ calls[1].pc = "done"
    /\ calls[1].raced
    /\ calls[2].pc = "done"
    /\ calls[1].tool # calls[2].tool
    /\ calls[1].sent.params # calls[2].sent.params
    /\ calls[1].out.kind = "return"
    /\ calls[2].out.kind = "raise"

====
